---- MODULE Spec2Model ----
(***************************************************************************)
(* FlowMate: get_vector_field and plot_phase_portrait                      *)
(* (src/FlowMate/__init__.py, duplicated in src/__init__.py).              *)
(*                                                                         *)
(* Numbers are exact rationals <<n, d>> in lowest terms with d > 0; numpy  *)
(* arrays are records [shape, data] whose data maps every index tuple of   *)
(* the shape to a number; a Python scalar is the array of shape <<>>.      *)
(***************************************************************************)
EXTENDS Integers, Sequences, FiniteSets, TLC

\* ------------------------------------------------------------------ bounds
MaxSamples == 3      \* longest 1D sample sequence of a grid axis
MaxHalfWidth == 1    \* grid axes are linspace(-a, a, n) with a in 1..MaxHalfWidth
MaxArg == 2          \* extra arguments are integers 1..MaxArg
MaxCalls == 2        \* plot_phase_portrait calls made by one process

\* ----------------------------------------------------------------- numbers
Abs(x) == IF x < 0 THEN -x ELSE x

Max(a, b) == IF a >= b THEN a ELSE b

RECURSIVE GCD(_, _)
GCD(a, b) == IF b = 0 THEN a ELSE GCD(b, a % b)

\* the rational n/d (d # 0) in lowest terms with a positive denominator
Rat(n, d) ==
    LET g == GCD(Abs(n), Abs(d))
        s == IF d < 0 THEN -1 ELSE 1
    IN  <<(s * n) \div g, (s * d) \div g>>

Num(v) == <<v, 1>>

Zero == Num(0)

One == Num(1)

RMul(a, b) == Rat(a[1] * b[1], a[2] * b[2])

RAdd(a, b) == Rat(a[1] * b[2] + b[1] * a[2], a[2] * b[2])

RNeg(a) == <<-a[1], a[2]>>

\* true division by a nonzero number
RDiv(a, b) == Rat(a[1] * b[2], a[2] * b[1])

Sign(a) == IF a[1] > 0 THEN 1 ELSE IF a[1] < 0 THEN -1 ELSE 0

\* ------------------------------------------------------------------ arrays
\* every index tuple of a shape
Indices(shape) ==
    {i \in [1..Len(shape) -> 1..(MaxSamples + 1)] :
        \A k \in 1..Len(shape) : i[k] <= shape[k]}

Scalar(v) == [shape |-> <<>>, data |-> [i \in {<<>>} |-> v]]

\* a shape padded on the left with 1s to n dimensions
Pad(shape, n) ==
    [k \in 1..n |-> IF k <= n - Len(shape) THEN 1 ELSE shape[k - (n - Len(shape))]]

Broadcastable(sa, sb) ==
    LET n == Max(Len(sa), Len(sb))
    IN  \A k \in 1..n :
            \/ Pad(sa, n)[k] = Pad(sb, n)[k]
            \/ Pad(sa, n)[k] = 1
            \/ Pad(sb, n)[k] = 1

BroadcastShape(sa, sb) ==
    LET n == Max(Len(sa), Len(sb))
    IN  [k \in 1..n |-> Max(Pad(sa, n)[k], Pad(sb, n)[k])]

\* the index of an operand of shape `shape` read for index i of an n-dimensional result
Proj(i, shape, n) ==
    [k \in 1..Len(shape) |-> IF shape[k] = 1 THEN 1 ELSE i[k + (n - Len(shape))]]

\* faulty variant of Multiply: + written for *
Multiply_Add(a, b) ==
    LET s == BroadcastShape(a.shape, b.shape)
        n == Len(s)
    IN  [shape |-> s,
         data |-> [i \in Indices(s) |->
                      RAdd(a.data[Proj(i, a.shape, n)], b.data[Proj(i, b.shape, n)])]]

\* a * b elementwise, with numpy broadcasting (the shapes are broadcastable)
Multiply(a, b) ==
    LET s == BroadcastShape(a.shape, b.shape)
        n == Len(s)
    IN  [shape |-> s,
         data |-> [i \in Indices(s) |->
                      RMul(a.data[Proj(i, a.shape, n)], b.data[Proj(i, b.shape, n)])]]

\* a / b elementwise, with numpy broadcasting, for b without zeros
TrueDivide(a, b) ==
    LET s == BroadcastShape(a.shape, b.shape)
        n == Len(s)
    IN  [shape |-> s,
         data |-> [i \in Indices(s) |->
                      RDiv(a.data[Proj(i, a.shape, n)], b.data[Proj(i, b.shape, n)])]]

Negative(a) == [shape |-> a.shape, data |-> [i \in DOMAIN a.data |-> RNeg(a.data[i])]]

\* faulty variant of ones_like: np.zeros_like
ones_like_Zeros(a) == [shape |-> a.shape, data |-> [i \in DOMAIN a.data |-> Zero]]

ones_like(a) == [shape |-> a.shape, data |-> [i \in DOMAIN a.data |-> One]]

\* -------------------------------------------------------------------- grid
\* np.linspace(-a, a, n)
linspace(a, n) ==
    [i \in 1..n |-> IF n = 1 THEN Num(-a) ELSE Rat(-a * (n - 1) + 2 * a * (i - 1), n - 1)]

\* np.meshgrid(q, p): both arrays have shape (len(p), len(q))
meshgrid(q, p) ==
    LET s == <<Len(p), Len(q)>>
    IN  <<[shape |-> s, data |-> [i \in Indices(s) |-> q[i[2]]]],
          [shape |-> s, data |-> [i \in Indices(s) |-> p[i[1]]]]>>

Samples == {linspace(a, n) : a \in 1..MaxHalfWidth, n \in 1..MaxSamples}

PhaseSpaces == {meshgrid(q, p) : q \in Samples, p \in Samples}

\* --------------------------------------------------------------- equations
\* The caller's equations function X. Each kind is one Python function:
\*   constant    def X(q, p):        return c1, c2
\*   oscillator  def X(q, p, m, k):  return p/m, -k*q
\*   example     def X(q, p, k):     return q*p, -k
\*   rotation    def X(q, p):        return p, -q
\*   edges       def X(q, p):        return p[:, :1], -q[:1, :]
\*   stacked     def X(q, p):        return np.stack([p, p]), np.stack([-q, -q])
\*   oversized   def X(q, p):        return np.ones((R+1, C+1)), np.ones((R+1, C+1))
\*   failing     def X(q, p):        raise RuntimeError
Kinds ==
    {"constant", "oscillator", "example", "rotation", "edges", "stacked",
     "oversized", "failing"}

Equations ==
    {[kind |-> "constant", c1 |-> a, c2 |-> b] :
        a \in -MaxHalfWidth..MaxHalfWidth, b \in -MaxHalfWidth..MaxHalfWidth}
    \cup {[kind |-> k, c1 |-> 0, c2 |-> 0] : k \in Kinds \ {"constant"}}

\* number of parameters of X after q and p
Arity(X) ==
    CASE X.kind = "oscillator" -> 2
      [] X.kind = "example" -> 1
      [] OTHER -> 0

\* a[:, :1] and a[:1, :] of a 2D array
FirstColumn(a) ==
    [shape |-> <<a.shape[1], 1>>,
     data |-> [i \in Indices(<<a.shape[1], 1>>) |-> a.data[i]]]

FirstRow(a) ==
    [shape |-> <<1, a.shape[2]>>,
     data |-> [i \in Indices(<<1, a.shape[2]>>) |-> a.data[i]]]

\* np.stack([a, a])
Stack2(a) ==
    [shape |-> <<2>> \o a.shape,
     data |-> [i \in Indices(<<2>> \o a.shape) |-> a.data[Tail(i)]]]

\* np.ones(shape)
Ones(shape) == [shape |-> shape, data |-> [i \in Indices(shape) |-> One]]

NoValue == <<Scalar(Zero), Scalar(Zero)>>

Returned(v) == [raised |-> FALSE, exc |-> "none", value |-> v]

Raised(e) == [raised |-> TRUE, exc |-> e, value |-> NoValue]

\* the Python call X(*argv): argv[1] is q, argv[2] is p, the rest are X's parameters
CallX(X, argv) ==
    LET q == argv[1]
        p == argv[2]
    IN  IF Len(argv) # 2 + Arity(X) THEN Raised("TypeError")
        ELSE CASE X.kind = "constant" ->
                    Returned(<<Scalar(Num(X.c1)), Scalar(Num(X.c2))>>)
               [] X.kind = "oscillator" ->
                    Returned(<<TrueDivide(p, Scalar(Num(argv[3]))),
                               Multiply(Scalar(Num(-argv[4])), q)>>)
               [] X.kind = "example" ->
                    Returned(<<Multiply(q, p), Scalar(Num(-argv[3]))>>)
               [] X.kind = "rotation" ->
                    Returned(<<p, Negative(q)>>)
               [] X.kind = "edges" ->
                    Returned(<<FirstColumn(p), Negative(FirstRow(q))>>)
               [] X.kind = "stacked" ->
                    Returned(<<Stack2(p), Stack2(Negative(q))>>)
               [] X.kind = "oversized" ->
                    Returned(<<Ones(<<q.shape[1] + 1, q.shape[2] + 1>>),
                               Ones(<<q.shape[1] + 1, q.shape[2] + 1>>)>>)
               [] OTHER -> Raised("RuntimeError")

\* ----------------------------------------------------------- extra arguments
\* args is a Python sequence: a list or a tuple of integers
EmptyList == [type |-> "list", items |-> <<>>]

ArgItems == UNION {[1..n -> 1..MaxArg] : n \in 0..2}

ArgSequences == {[type |-> t, items |-> s] : t \in {"list", "tuple"}, s \in ArgItems}

\* faulty variant of get_vector_field: the derivatives are returned as X gave
\* them, not multiplied by the arrays of ones
get_vector_field_NoOnes(X, phase_space, args) ==
    LET argv == IF args = EmptyList
                THEN <<phase_space[1], phase_space[2]>>
                ELSE <<phase_space[1], phase_space[2]>> \o args.items
        r == CallX(X, argv)
    IN  [raised |-> r.raised, exc |-> r.exc, value |-> r.value, calls |-> <<argv>>]

\* faulty variant of get_vector_field: args is never forwarded to X
get_vector_field_DropsArgs(X, phase_space, args) ==
    LET argv == <<phase_space[1], phase_space[2]>>
        r == CallX(X, argv)
    IN  IF r.raised
        THEN [raised |-> TRUE, exc |-> r.exc, value |-> NoValue, calls |-> <<argv>>]
        ELSE IF ~Broadcastable(r.value[1].shape, phase_space[1].shape)
                \/ ~Broadcastable(r.value[2].shape, phase_space[2].shape)
        THEN [raised |-> TRUE, exc |-> "ValueError", value |-> NoValue, calls |-> <<argv>>]
        ELSE [raised |-> FALSE, exc |-> "none",
              value |-> <<Multiply(r.value[1], ones_like(phase_space[1])),
                          Multiply(r.value[2], ones_like(phase_space[2]))>>,
              calls |-> <<argv>>]

\* -------------------------------------------------------- get_vector_field
\* The result of get_vector_field(X, phase_space, args): whether it raised, the
\* pair it returned, and the argument lists of the calls it made to X.
get_vector_field(X, phase_space, args) ==
    LET position == phase_space[1]
        momentum == phase_space[2]
        argv == IF args = EmptyList
                THEN <<position, momentum>>
                ELSE <<position, momentum>> \o args.items
        r == CallX(X, argv)
        position_derivatives == r.value[1]
        momentum_derivatives == r.value[2]
    IN  IF r.raised
        THEN [raised |-> TRUE, exc |-> r.exc, value |-> NoValue, calls |-> <<argv>>]
        ELSE IF ~Broadcastable(position_derivatives.shape, position.shape)
                \/ ~Broadcastable(momentum_derivatives.shape, momentum.shape)
        THEN [raised |-> TRUE, exc |-> "ValueError", value |-> NoValue, calls |-> <<argv>>]
        ELSE [raised |-> FALSE, exc |-> "none",
              value |-> <<Multiply(position_derivatives, ones_like(position)),
                          Multiply(momentum_derivatives, ones_like(momentum))>>,
              calls |-> <<argv>>]

\* ------------------------------------------------------------------- state
VARIABLES
    pc,            \* the statement the running call is at; "idle" between calls
    rcParams,      \* plt.rcParams['figure.facecolor'], process-wide
    default_args,  \* the list object that is the default value of args
    png,           \* the contents of phase_portrait.png
    figure,        \* pyplot's current figure: its axes, each with the artists drawn on it
    objs,          \* the caller's objects and options passed to the running call
    ret,           \* what get_vector_field gave
    prior,         \* what get_vector_field gave the last time, for the same objects
    loc,           \* locals of plot_phase_portrait: magnitude and the quiver's U, V
    trace,         \* the steps the running plot_phase_portrait call has performed
    ncalls,        \* plot_phase_portrait calls begun
    writes,        \* writes of phase_portrait.png by the running call
    display,       \* the figure plt.show() displayed last
    exc,           \* the exception the last call raised to its caller
    hist           \* history: rcParams and the file as the running call found them, the
                   \* last call begun with save_fig, the last call that returned with it

vars ==
    <<pc, rcParams, default_args, png, figure, objs, ret, prior, loc, trace,
      ncalls, writes, display, exc, hist>>

DefaultDpi == 300

Dpis == {DefaultDpi, DefaultDpi \div 3}

NoFile == [exists |-> FALSE, axes |-> <<>>, dpi |-> 0]

NoHist == [rc |-> "white", png |-> NoFile, asked |-> 0, saved |-> 0]

NoRet == [raised |-> FALSE, exc |-> "none", value |-> NoValue, calls |-> <<>>]

\* reals sign * sqrt(sq), sq a rational >= 0; a zero denominator marks NaN and Inf
NaN == [sign |-> 0, sq |-> <<0, 0>>]

Inf(s) == [sign |-> s, sq |-> <<1, 0>>]

IsFinite(v) == v.sq[2] # 0

\* np.sqrt(a**2 + b**2)
Magnitude(a, b) ==
    [shape |-> a.shape,
     data |-> [i \in DOMAIN a.data |->
                  LET r == RAdd(RMul(a.data[i], a.data[i]), RMul(b.data[i], b.data[i]))
                  IN  [sign |-> Sign(r), sq |-> r]]]

\* faulty variant of Normalized: zero magnitudes are guarded, giving 0 there
Normalized_Guarded(a, l) ==
    [shape |-> a.shape,
     data |-> [i \in DOMAIN a.data |->
                  IF l.data[i].sq = Zero
                  THEN [sign |-> 0, sq |-> Zero]
                  ELSE [sign |-> Sign(a.data[i]),
                        sq |-> RDiv(RMul(a.data[i], a.data[i]), l.data[i].sq)]]]

\* a / l for l a magnitude array: numpy gives NaN for 0/0 and Inf for x/0, and warns
Normalized(a, l) ==
    [shape |-> a.shape,
     data |-> [i \in DOMAIN a.data |->
                  IF l.data[i].sq = Zero
                  THEN IF a.data[i] = Zero THEN NaN ELSE Inf(Sign(a.data[i]))
                  ELSE [sign |-> Sign(a.data[i]),
                        sq |-> RDiv(RMul(a.data[i], a.data[i]), l.data[i].sq)]]]

Unset == Scalar([sign |-> 0, sq |-> Zero])

NoLoc == [magnitude |-> Unset, U |-> Unset, V |-> Unset, normalized |-> FALSE]

\* the arguments a caller may pass: args omitted means the default list object
Options ==
    [vec_field : BOOLEAN, save_fig : BOOLEAN, dark_mode : BOOLEAN, dpi : Dpis]

NoOptions == [vec_field |-> FALSE, save_fig |-> FALSE, dark_mode |-> FALSE, dpi |-> DefaultDpi]

Objects(X, phase_space, args, options) ==
    [X |-> X, phase_space |-> phase_space, args |-> args, options |-> options]

\* ------------------------------------------- a process calling get_vector_field
\* faulty variant of GetVectorFieldCall: the array of ones is made in place, in the
\* caller's position array
GetVectorFieldCall_InPlace ==
    /\ pc \in {"call", "returned"}
    /\ ret' = get_vector_field(objs.X, objs.phase_space, objs.args)
    /\ prior' = ret
    /\ exc' = ret'.exc
    /\ pc' = "returned"
    /\ objs' = [objs EXCEPT !.phase_space[1] = ones_like(@)]
    /\ UNCHANGED <<rcParams, default_args, png, figure, loc, trace, ncalls,
                   writes, display, hist>>

\* One whole call get_vector_field(X, phase_space, args) on the caller's objects,
\* which the caller may repeat. The caller's objects are drawn by EvalInit; args
\* omitted is the default list object.
GetVectorFieldCall ==
    /\ pc \in {"call", "returned"}
    /\ ret' = get_vector_field(objs.X, objs.phase_space, objs.args)
    /\ prior' = ret
    /\ exc' = ret'.exc
    /\ pc' = "returned"
    /\ UNCHANGED <<rcParams, default_args, png, figure, objs, loc, trace, ncalls,
                   writes, display, hist>>

EvalInit ==
    /\ pc = "call"
    /\ rcParams \in {"white", "black"}
    /\ default_args = EmptyList
    /\ png \in {NoFile, [exists |-> TRUE, axes |-> <<>>, dpi |-> DefaultDpi]}
    /\ figure = <<>>
    /\ \E X \in Equations, phase_space \in PhaseSpaces,
          args \in ArgSequences \cup {default_args} :
            objs = Objects(X, phase_space, args, NoOptions)
    /\ ret = NoRet
    /\ prior = NoRet
    /\ loc = NoLoc
    /\ trace = <<>>
    /\ ncalls = 0
    /\ writes = 0
    /\ display = <<>>
    /\ exc = "none"
    /\ hist = [NoHist EXCEPT !.rc = rcParams, !.png = png]

EvalNext == GetVectorFieldCall

EvalSpec == EvalInit /\ [][EvalNext]_vars

\* ---------------------------------------- a process calling plot_phase_portrait
\* the grids plotted: the samples linspace(-1, 1, n) on both axes, at least two of
\* them (a streamplot needs two)
PlotPhaseSpaces == {meshgrid(linspace(1, n), linspace(1, n)) : n \in 2..MaxSamples}

\* the equations plotted, each with args omitted or one value for each parameter
PlotEquations == {X \in Equations : X.c1 \in {0, 1} /\ X.c2 \in {0, 1}}

PlotArgs(X) ==
    {default_args} \cup {[type |-> "list", items |-> s] : s \in [1..Arity(X) -> 1..MaxArg]}

\* no call is running: no arguments, no locals
NoObjs ==
    Objects([kind |-> "failing", c1 |-> 0, c2 |-> 0], <<Scalar(Zero), Scalar(Zero)>>,
            EmptyList, NoOptions)

\* the figure with an artist drawn on its newest axes
Draw(fig, artist) ==
    [fig EXCEPT ![Len(fig)].artists = Append(@, artist)]

\* The caller invokes plot_phase_portrait(X, phase_space, args, vec_field, save_fig,
\* dpi=dpi, dark_mode=dark_mode).
PlotCall ==
    /\ pc = "idle"
    /\ ncalls < MaxCalls
    /\ \E X \in PlotEquations, phase_space \in PlotPhaseSpaces, options \in Options :
          \E args \in PlotArgs(X) :
            objs' = Objects(X, phase_space, args, options)
    /\ pc' = "dark_mode"
    /\ ncalls' = ncalls + 1
    /\ trace' = <<>>
    /\ writes' = 0
    /\ exc' = "none"
    /\ ret' = NoRet
    /\ loc' = NoLoc
    /\ hist' = [hist EXCEPT !.rc = rcParams, !.png = png,
                            !.asked = IF objs'.options.save_fig THEN ncalls' ELSE @]
    /\ UNCHANGED <<rcParams, default_args, png, figure, prior, display>>

\* faulty variant of DarkMode: dark_mode=false sets the background back to white
DarkMode_Resets ==
    /\ pc = "dark_mode"
    /\ IF objs.options.dark_mode
       THEN /\ rcParams' = "black"
            /\ trace' = Append(trace, "dark_mode")
       ELSE /\ rcParams' = "white"
            /\ trace' = trace
    /\ pc' = "axes"
    /\ UNCHANGED <<default_args, png, figure, objs, ret, prior, loc, ncalls, writes,
                   display, exc, hist>>

\* if dark_mode: plt.rcParams['figure.facecolor'] = 'black'
DarkMode ==
    /\ pc = "dark_mode"
    /\ IF objs.options.dark_mode
       THEN /\ rcParams' = "black"
            /\ trace' = Append(trace, "dark_mode")
       ELSE UNCHANGED <<rcParams, trace>>
    /\ pc' = "axes"
    /\ UNCHANGED <<default_args, png, figure, objs, ret, prior, loc, ncalls, writes,
                   display, exc, hist>>

\* ax = plt.axes(aspect='equal'); ax.set_axis_off(): a new axes on the current figure
Axes ==
    /\ pc = "axes"
    /\ figure' = Append(figure, [call |-> ncalls, artists |-> <<>>])
    /\ trace' = Append(trace, "axes")
    /\ pc' = "get_vector_field"
    /\ UNCHANGED <<rcParams, default_args, png, objs, ret, prior, loc, ncalls, writes,
                   display, exc, hist>>

\* faulty variant of Evaluate: a call that raised is tried once more
Evaluate_Retry ==
    /\ pc = "get_vector_field"
    /\ LET r == get_vector_field(objs.X, objs.phase_space, objs.args)
       IN  ret' = IF r.raised THEN [r EXCEPT !.calls = r.calls \o r.calls] ELSE r
    /\ trace' = Append(trace, "get_vector_field")
    /\ IF ret'.raised
       THEN /\ exc' = ret'.exc
            /\ pc' = "raised"
            /\ loc' = loc
       ELSE /\ exc' = exc
            /\ pc' = "streamplot"
            /\ loc' = [loc EXCEPT !.magnitude = Magnitude(ret'.value[1], ret'.value[2])]
    /\ UNCHANGED <<rcParams, default_args, png, figure, objs, prior, ncalls, writes,
                   display, hist>>

\* get_vector_field(X, phase_space, args=args) and the magnitude; an exception ends the call
Evaluate ==
    /\ pc = "get_vector_field"
    /\ ret' = get_vector_field(objs.X, objs.phase_space, objs.args)
    /\ trace' = Append(trace, "get_vector_field")
    /\ IF ret'.raised
       THEN /\ exc' = ret'.exc
            /\ pc' = "raised"
            /\ loc' = loc
       ELSE /\ exc' = exc
            /\ pc' = "streamplot"
            /\ loc' = [loc EXCEPT !.magnitude = Magnitude(ret'.value[1], ret'.value[2])]
    /\ UNCHANGED <<rcParams, default_args, png, figure, objs, prior, ncalls, writes,
                   display, hist>>

\* faulty variant of Streamplot: the figure is saved right after the streamlines,
\* before the quiver overlay
Streamplot_ThenSave ==
    /\ pc = "streamplot"
    /\ IF ret.value[1].shape = objs.phase_space[1].shape
          /\ ret.value[2].shape = objs.phase_space[1].shape
       THEN /\ figure' = Draw(figure, "streamplot")
            /\ IF objs.options.save_fig
               THEN /\ png' = [exists |-> TRUE, axes |-> figure', dpi |-> objs.options.dpi]
                    /\ trace' = trace \o <<"streamplot", "savefig">>
               ELSE /\ png' = png
                    /\ trace' = Append(trace, "streamplot")
            /\ pc' = "quiver"
            /\ exc' = exc
       ELSE /\ exc' = "ValueError"
            /\ pc' = "raised"
            /\ UNCHANGED <<figure, trace, png>>
    /\ UNCHANGED <<rcParams, default_args, objs, ret, prior, loc, ncalls, writes,
                   display, hist>>

\* ax.streamplot(...), which raises ValueError unless the field has the grid's shape
Streamplot ==
    /\ pc = "streamplot"
    /\ IF ret.value[1].shape = objs.phase_space[1].shape
          /\ ret.value[2].shape = objs.phase_space[1].shape
       THEN /\ figure' = Draw(figure, "streamplot")
            /\ trace' = Append(trace, "streamplot")
            /\ pc' = "quiver"
            /\ exc' = exc
       ELSE /\ exc' = "ValueError"
            /\ pc' = "raised"
            /\ UNCHANGED <<figure, trace>>
    /\ UNCHANGED <<rcParams, default_args, png, objs, ret, prior, loc, ncalls, writes,
                   display, hist>>

\* if vec_field: ax.quiver(position, momentum, dq/magnitude, dp/magnitude, magnitude, ...)
Quiver ==
    /\ pc = "quiver"
    /\ IF objs.options.vec_field
       THEN /\ loc' = [loc EXCEPT !.U = Normalized(ret.value[1], loc.magnitude),
                                  !.V = Normalized(ret.value[2], loc.magnitude),
                                  !.normalized = TRUE]
            /\ figure' = Draw(figure, "quiver")
            /\ trace' = Append(trace, "quiver")
       ELSE UNCHANGED <<loc, figure, trace>>
    /\ pc' = "savefig"
    /\ UNCHANGED <<rcParams, default_args, png, objs, ret, prior, ncalls, writes,
                   display, exc, hist>>

\* faulty variant of Savefig: the figure is saved whatever save_fig is
Savefig_Always ==
    /\ pc = "savefig"
    /\ png' = [exists |-> TRUE, axes |-> figure, dpi |-> objs.options.dpi]
    /\ writes' = writes + 1
    /\ trace' = IF objs.options.save_fig THEN Append(trace, "savefig") ELSE trace
    /\ pc' = "show"
    /\ UNCHANGED <<rcParams, default_args, figure, objs, ret, prior, loc, ncalls,
                   display, exc, hist>>

\* if save_fig: plt.savefig("phase_portrait.png", dpi=dpi)
Savefig ==
    /\ pc = "savefig"
    /\ IF objs.options.save_fig
       THEN /\ png' = [exists |-> TRUE, axes |-> figure, dpi |-> objs.options.dpi]
            /\ writes' = writes + 1
            /\ trace' = Append(trace, "savefig")
       ELSE UNCHANGED <<png, writes, trace>>
    /\ pc' = "show"
    /\ UNCHANGED <<rcParams, default_args, figure, objs, ret, prior, loc, ncalls,
                   display, exc, hist>>

\* plt.show(): displays the current figure until its window is closed
Show ==
    /\ pc = "show"
    /\ display' = figure
    /\ figure' = <<>>
    /\ trace' = Append(trace, "show")
    /\ pc' = "returned"
    /\ UNCHANGED <<rcParams, default_args, png, objs, ret, prior, loc, ncalls, writes,
                   exc, hist>>

\* The call is over, by its return or by an exception: its arguments and locals are
\* gone and the window shown is closed; rcParams, the file and the current figure stay.
Return ==
    /\ pc \in {"returned", "raised"}
    /\ pc' = "idle"
    /\ objs' = NoObjs
    /\ ret' = NoRet
    /\ loc' = NoLoc
    /\ trace' = <<>>
    /\ writes' = 0
    /\ display' = <<>>
    /\ exc' = "none"
    /\ hist' = [hist EXCEPT !.rc = rcParams, !.png = png,
                            !.saved = IF pc = "returned" /\ objs.options.save_fig
                                      THEN ncalls ELSE @]
    /\ UNCHANGED <<rcParams, default_args, png, figure, prior, ncalls>>

Init ==
    /\ pc = "idle"
    /\ rcParams = "white"
    /\ default_args = EmptyList
    /\ png = NoFile
    /\ figure = <<>>
    /\ objs = NoObjs
    /\ ret = NoRet
    /\ prior = NoRet
    /\ loc = NoLoc
    /\ trace = <<>>
    /\ ncalls = 0
    /\ writes = 0
    /\ display = <<>>
    /\ exc = "none"
    /\ hist = NoHist

Next ==
    \/ PlotCall
    \/ DarkMode
    \/ Axes
    \/ Evaluate
    \/ Streamplot
    \/ Quiver
    \/ Savefig
    \/ Show
    \/ Return

Spec == Init /\ [][Next]_vars

\* ------------------------------------------------------------------ claims
GridShape == objs.phase_space[1].shape

\* what X itself returned to the call get_vector_field made
Raw == CallX(objs.X, ret.calls[1])

\* a shape that np.broadcast_to accepts for the target shape
BroadcastsTo(shape, target) ==
    /\ Len(shape) <= Len(target)
    /\ \A k \in 1..Len(target) : Pad(shape, Len(target))[k] \in {1, target[k]}

EvalReturned == pc = "returned" /\ ~ret.raised

\* C1 as stated: whenever get_vector_field returns, both arrays have exactly the
\* grid's shape, whatever broadcast-compatible value the equations returned.
C1_AnyBroadcastCompatible ==
    EvalReturned =>
        /\ ret.value[1].shape = GridShape
        /\ ret.value[2].shape = GridShape

\* C1 amended: whenever get_vector_field returns and each value the equations
\* returned broadcasts to the grid's shape (a scalar, a full-grid array, or an array
\* of at most two dimensions each 1 or the grid's), both arrays returned are 2D
\* arrays of exactly the grid's shape (len(momentum_samples), len(position_samples)).
C1_GridShape ==
    (/\ EvalReturned
     /\ BroadcastsTo(Raw.value[1].shape, GridShape)
     /\ BroadcastsTo(Raw.value[2].shape, GridShape)) =>
        /\ ret.value[1].shape = GridShape
        /\ ret.value[2].shape = GridShape
        /\ Len(ret.value[1].shape) = 2

C1_Witness ==
    /\ EvalReturned
    /\ objs.X.kind = "edges"
    /\ Raw.value[1].shape # GridShape
    /\ GridShape[1] # GridShape[2]
    /\ ret.value[1].shape = GridShape

\* C2: for a constant equations function (c1, c2) and any grid, get_vector_field
\* returns two arrays of the grid's shape, every element c1 in the first and c2 in
\* the second.
C2_ConstantFill ==
    (pc = "returned" /\ objs.X.kind = "constant" /\ objs.args.items = <<>>) =>
        /\ ~ret.raised
        /\ ret.value[1].shape = GridShape
        /\ ret.value[2].shape = GridShape
        /\ \A i \in Indices(GridShape) :
              /\ ret.value[1].data[i] = Num(objs.X.c1)
              /\ ret.value[2].data[i] = Num(objs.X.c2)

C2_Witness ==
    /\ EvalReturned
    /\ objs.X.kind = "constant"
    /\ objs.X.c1 # objs.X.c2
    /\ objs.X.c1 # 0
    /\ GridShape[1] > GridShape[2]
    /\ GridShape[2] > 1

\* C3: when both results of the equations are already arrays of the full grid
\* shape, get_vector_field returns arrays equal to them element for element.
C3_FullGridUnchanged ==
    (/\ pc = "returned"
     /\ ~Raw.raised
     /\ Raw.value[1].shape = GridShape
     /\ Raw.value[2].shape = GridShape) =>
        /\ ~ret.raised
        /\ ret.value = Raw.value

C3_Witness ==
    /\ EvalReturned
    /\ objs.X.kind = "rotation"
    /\ GridShape = <<MaxSamples, 2>>
    /\ ret.value = <<objs.phase_space[2], Negative(objs.phase_space[1])>>

\* C4: get_vector_field calls the equations exactly once, with the position array,
\* the momentum array and then every element of args in order (so exactly the two
\* arrays when args is empty, as unpacking the empty args gives); for
\* X(q, p, m, k) = (p/m, -k*q) and args [m, k] it returns p/m and -k*q at every
\* grid point.
C4_OneCallArgsInOrder ==
    pc = "returned" =>
        /\ Len(ret.calls) = 1
        /\ ret.calls[1] = <<objs.phase_space[1], objs.phase_space[2]>> \o objs.args.items
        /\ objs.args.items = <<>> => Len(ret.calls[1]) = 2
        /\ (objs.X.kind = "oscillator" /\ Len(objs.args.items) = 2) =>
              /\ ~ret.raised
              /\ ret.value[1].shape = GridShape
              /\ ret.value[2].shape = GridShape
              /\ \A i \in Indices(GridShape) :
                    /\ ret.value[1].data[i] =
                          RDiv(objs.phase_space[2].data[i], Num(objs.args.items[1]))
                    /\ ret.value[2].data[i] =
                          RMul(Num(-objs.args.items[2]), objs.phase_space[1].data[i])

C4_Witness ==
    /\ EvalReturned
    /\ objs.X.kind = "oscillator"
    /\ objs.args.items = <<2, 1>>
    /\ GridShape = <<2, MaxSamples>>
    /\ \E i \in Indices(GridShape) : ret.value[1].data[i] = Rat(1, 2)

\* C5: a get_vector_field call changes neither the grid arrays, nor args, nor the
\* shared default list, nor rcParams, nor the file or the figure, and a repeated
\* call on the same inputs returns what the call before it returned.
C5_NoSideEffects ==
    [][/\ objs' = objs
       /\ default_args' = default_args
       /\ rcParams' = rcParams
       /\ png' = png
       /\ figure' = figure
       /\ pc = "returned" => ret' = ret]_vars

C5_Witness ==
    /\ pc = "returned"
    /\ prior = ret
    /\ ~ret.raised
    /\ objs.args = default_args
    /\ rcParams = "black"
    /\ png.exists

\* ------------------------------------------------------------- plot claims
\* C6: once a call with dark_mode=true has run its dark-mode step the setting is
\* black, a black setting stays black through every later step and call, and a call
\* with dark_mode=false never changes the setting.
C6_DarkPersists ==
    [][/\ (pc = "dark_mode" /\ objs.options.dark_mode) => rcParams' = "black"
       /\ rcParams = "black" => rcParams' = "black"
       /\ (pc # "idle" /\ ~objs.options.dark_mode) => rcParams' = rcParams]_vars

C6_Witness ==
    /\ pc = "returned"
    /\ ncalls = 2
    /\ ~objs.options.dark_mode
    /\ rcParams = "black"

\* the image a call saves: the current figure, whose newest axes is the call's
SavedBy(n) == png.exists /\ png.axes[Len(png.axes)].call = n

\* C7 as stated: after any sequence of calls the file holds the image of the last
\* call that had save_fig=true.
C7_LastCallWithSaveFig ==
    pc = "idle" =>
        IF hist.asked = 0 THEN png = NoFile ELSE SavedBy(hist.asked)

\* C7 amended: a call that returns writes phase_portrait.png exactly once, at its
\* dpi, if and only if save_fig is true; a call with save_fig=false leaves the file
\* as it found it; and after any sequence of calls the file holds the image of the
\* last call that had save_fig=true and returned without raising.
C7_SaveFig ==
    /\ pc = "returned" =>
          /\ writes = (IF objs.options.save_fig THEN 1 ELSE 0)
          /\ objs.options.save_fig =>
                SavedBy(ncalls) /\ png.dpi = objs.options.dpi
    /\ (pc # "idle" /\ ~objs.options.save_fig) => png = hist.png
    /\ pc = "idle" =>
          IF hist.saved = 0 THEN png = NoFile ELSE SavedBy(hist.saved)

C7_Witness ==
    /\ pc = "idle"
    /\ ncalls = 2
    /\ hist.saved = 1
    /\ hist.asked = 2
    /\ SavedBy(1)

\* the steps of a call that returns, in order
Steps(options) ==
    (IF options.dark_mode THEN <<"dark_mode">> ELSE <<>>)
    \o <<"axes", "get_vector_field", "streamplot">>
    \o (IF options.vec_field THEN <<"quiver">> ELSE <<>>)
    \o (IF options.save_fig THEN <<"savefig">> ELSE <<>>)
    \o <<"show">>

IsPrefix(a, b) == Len(a) <= Len(b) /\ a = SubSeq(b, 1, Len(a))

\* C8: the steps of a call occur in the order dark-mode styling (if requested),
\* axes, evaluation, streamplot, quiver (only if vec_field), save (only if
\* save_fig), show; the saved image holds the streamlines, and the overlay when
\* vec_field is set; the display is the last step of a call that returns.
C8_StepOrder ==
    /\ pc # "idle" => IsPrefix(trace, Steps(objs.options))
    /\ pc = "returned" =>
          /\ trace = Steps(objs.options)
          /\ display # <<>>
    /\ (pc # "idle" /\ writes > 0) =>
          png.axes[Len(png.axes)].artists =
              <<"streamplot">> \o (IF objs.options.vec_field THEN <<"quiver">> ELSE <<>>)

C8_Witness ==
    /\ pc = "returned"
    /\ trace = <<"dark_mode", "axes", "get_vector_field", "streamplot", "quiver",
                 "savefig", "show">>
    /\ png.axes[Len(png.axes)].artists = <<"streamplot", "quiver">>

\* the grid points where the field is the zero vector
ZeroPoints ==
    {i \in DOMAIN ret.value[1].data :
        ret.value[1].data[i] = Zero /\ ret.value[2].data[i] = Zero}

\* C9: equations that give the zero vector at a grid point do not make
\* get_vector_field raise; with vec_field=true the normalized vector at such a point
\* is non-finite and nothing is raised; with vec_field=false nothing is normalized.
C9_ZeroVector ==
    /\ (pc \in {"streamplot", "quiver", "savefig", "show", "returned"}) => ~ret.raised
    /\ (pc \in {"savefig", "show", "returned"} /\ objs.options.vec_field) =>
          /\ loc.normalized
          /\ exc = "none"
          /\ \A i \in DOMAIN loc.U.data :
                (i \in ZeroPoints) <=>
                    (~IsFinite(loc.U.data[i]) /\ ~IsFinite(loc.V.data[i]))
    /\ (pc # "idle" /\ ~objs.options.vec_field) =>
          /\ ~loc.normalized
          /\ loc.U = Unset
          /\ loc.V = Unset

C9_Witness ==
    /\ pc = "returned"
    /\ objs.options.vec_field
    /\ objs.X.kind = "rotation"
    /\ ZeroPoints # {}
    /\ \E i \in ZeroPoints : loc.U.data[i] = NaN
    /\ \E i \in DOMAIN loc.U.data : IsFinite(loc.U.data[i])

\* C10: when the equations raise during plot_phase_portrait the same error reaches
\* the caller after one invocation of the equations; nothing is drawn, written or
\* displayed; with dark_mode=true the setting is already black, with
\* dark_mode=false it is as the call found it.
C10_EquationsRaise ==
    (pc = "raised" /\ ret.raised /\ Raw.raised) =>
        /\ Len(ret.calls) = 1
        /\ exc = Raw.exc
        /\ figure[Len(figure)] = [call |-> ncalls, artists |-> <<>>]
        /\ writes = 0
        /\ png = hist.png
        /\ display = <<>>
        /\ trace = (IF objs.options.dark_mode THEN <<"dark_mode">> ELSE <<>>)
                   \o <<"axes", "get_vector_field">>
        /\ rcParams = (IF objs.options.dark_mode THEN "black" ELSE hist.rc)

C10_Witness ==
    /\ pc = "raised"
    /\ objs.X.kind = "failing"
    /\ exc = "RuntimeError"
    /\ objs.options.dark_mode
    /\ objs.options.save_fig
    /\ hist.rc = "white"
    /\ rcParams = "black"
    /\ png.exists

====
